---- MODULE Spec2Model ----
(***************************************************************************)
(* A model of TextureReplacer (GPU/Common/TextureReplacer.cpp): the        *)
(* two-tier replacement cache (cache_ / levelCache_), the wildcard alias   *)
(* resolver, the decimation sweep and the save coordinator.                *)
(*                                                                         *)
(* Representation.                                                         *)
(*  - A 64-bit cache key is the record [hi, lo] of its two 32-bit halves,  *)
(*    so "& 0xFFFFFFFF" and "& ~0xFFFFFFFF" are exact.                     *)
(*  - A std::string is a sequence of tokens; a token is a file name or the *)
(*    separator "|".  "" is << >>.  Joining and splitting on '|' are       *)
(*    computed on the tokens.                                              *)
(*  - A ReplacedTexture* is an index into the heap `handles` (0: nullptr). *)
(*  - Sizes are whole GiB; times are whole seconds.  Ages are carried      *)
(*    multiplied by MAX_CACHE_SIZE so that the interpolation of Decimate   *)
(*    stays exact in the integers.                                         *)
(*  - time_now_d() is a monotonic high-resolution clock: every reading is  *)
(*    later than the one before it.                                        *)
(***************************************************************************)
EXTENDS Integers, Sequences, FiniteSets, TLC

\* ------------------------------------------------------------------------
\* Bounds of the model
\* ------------------------------------------------------------------------
\* The clock stops being read past this many seconds.
MaxTime == 450
\* At most this many save tasks are ever handed to the thread pool.
MaxTasks == 3

\* ------------------------------------------------------------------------
\* Program constants
\* ------------------------------------------------------------------------
MAX_CACHE_SIZE == 4
MAX_REPLACEMENT_MIP_LEVELS == 2
AgeDefault == 1800
AgePressure == 90
AgeSpan == 1710

NullHandle == 0
\* Reduce factors are counted in quarters: 1.0 is 4 and 0.5 is 2
FullFactor == 4
\* reduceHashGlobalValue
HalfFactor == 2
EmptyString == << >>
\* What a VFSBackend pointer refers to: nothing, the backend that is open, or
\* a backend that was deleted
NullStore == "nullptr"
LiveStore == "open"
DeletedStore == "deleted"
\* No file at all
NoFiles == [path \in {} |-> "old"]

\* ------------------------------------------------------------------------
\* Keys
\* ------------------------------------------------------------------------
CacheKey(hi, lo) == [hi |-> hi, lo |-> lo]
ZeroCacheKey == CacheKey(0, 0)
\* cachekey & 0xFFFFFFFFULL
LowHalf(cachekey) == [hi |-> 0, lo |-> cachekey.lo]
\* cachekey & ~0xFFFFFFFFULL
HighHalf(cachekey) == [hi |-> cachekey.hi, lo |-> 0]
ReplacementCacheKey(cachekey, hash) == [cachekey |-> cachekey, hash |-> hash]

\* ------------------------------------------------------------------------
\* Strings
\* ------------------------------------------------------------------------
HexDigit(v) == <<"0", "1", "2", "3", "4", "5", "6", "7",
                 "8", "9", "a", "b", "c", "d", "e", "f">>[v + 1]
\* %08x of a value below 16
Hex8(v) == "0000000" \o HexDigit(v)

\* snprintf "%016llx%08x" / "%016llx%08x_%d"
HashName(cachekey, hash, level) ==
    IF level > 0
    THEN Hex8(cachekey.hi) \o Hex8(cachekey.lo) \o Hex8(hash) \o "_" \o ToString(level)
    ELSE Hex8(cachekey.hi) \o Hex8(cachekey.lo) \o Hex8(hash)

RECURSIVE SplitString(_)
\* SplitString(str, '|', out): the pieces between the separators
SplitString(str) ==
    IF str = << >> THEN << >>
    ELSE IF Head(str) = "|" THEN SplitString(Tail(str))
    ELSE <<Head(str)>> \o SplitString(Tail(str))

\* ------------------------------------------------------------------------
\* State
\* ------------------------------------------------------------------------
VARIABLES
    bReplaceTextures,   \* g_Config.bReplaceTextures
    bSaveNewTextures,   \* g_Config.bSaveNewTextures
    enabled_,
    hash_,
    ignoreAddress_,
    ignoreMipmap_,
    aliases_,           \* ReplacementCacheKey -> alias string
    hashranges_,        \* [addr, w, h] -> WidthHeightPair
    reduceHash_,
    reducehashranges_,  \* [w, h] -> reduce factor, in quarters
    reduceHashSize,     \* the reduce factor ComputeHash multiplies by, in quarters
    vfs_,               \* the VFSBackend textures are read from, or nullptr
    cache_,             \* ReplacementCacheKey -> ReplacedTextureRef
    levelCache_,        \* hashfiles string -> ReplacedTexture*
    handles,            \* the ReplacedTexture objects, in order of construction
    savedCache_,        \* ReplacementCacheKey -> SavedTextureCacheData
    tasks,              \* every SaveTextureTask handed to g_threadManager
    pc,                 \* where the render thread is inside NotifyTextureDecoded
    files,              \* the files under basePath_: path -> what wrote them
    now,                \* the last reading of time_now_d()
    lastTextureCacheSizeGB_,
    last,               \* the last call and what it returned
    seen                \* per FindReplacement arguments: what their first resolution gave

configVars == <<bReplaceTextures, bSaveNewTextures, enabled_, hash_,
                ignoreAddress_, ignoreMipmap_, aliases_, hashranges_,
                reduceHash_, reducehashranges_, vfs_>>
tierVars == <<cache_, levelCache_>>
saveVars == <<savedCache_, tasks, pc, files>>
vars == <<bReplaceTextures, bSaveNewTextures, enabled_, hash_, ignoreAddress_,
          ignoreMipmap_, aliases_, hashranges_, reduceHash_, reducehashranges_,
          reduceHashSize, vfs_, cache_, levelCache_, handles, savedCache_,
          tasks, pc, files, now, lastTextureCacheSizeGB_, last, seen>>

\* ------------------------------------------------------------------------
\* LookupWildcard
\* ------------------------------------------------------------------------
\* map.find(key): the entry's key, or map.end()
MapFind(map, key) == [found |-> key \in DOMAIN map, key |-> key]

\* A resolver that tries the key without address before the keys without hash
LookupWildcard_NoAddrFirst(map, key, cachekey, hash, ignoreAddress) ==
    LET clutOnly == ReplacementCacheKey(LowHalf(cachekey), 0)
        noHash   == ReplacementCacheKey(cachekey, 0)
        noAddr   == ReplacementCacheKey(LowHalf(cachekey), hash)
        addrOnly == ReplacementCacheKey(HighHalf(cachekey), hash)
        anyAddr  == ReplacementCacheKey(ZeroCacheKey, hash)
    IN  IF MapFind(map, key).found THEN MapFind(map, key)
        ELSE IF MapFind(map, noAddr).found THEN MapFind(map, noAddr)
        ELSE IF MapFind(map, clutOnly).found THEN MapFind(map, clutOnly)
        ELSE IF ~ignoreAddress /\ MapFind(map, noHash).found THEN MapFind(map, noHash)
        ELSE IF ~ignoreAddress /\ MapFind(map, addrOnly).found THEN MapFind(map, addrOnly)
        ELSE MapFind(map, anyAddr)

\* LookupWildcard(map, key, cachekey, hash, ignoreAddress): the entry found, by
\* its key, or map.end()
LookupWildcard(map, key, cachekey, hash, ignoreAddress) ==
    LET clutOnly == ReplacementCacheKey(LowHalf(cachekey), 0)
        noHash   == ReplacementCacheKey(cachekey, 0)
        noAddr   == ReplacementCacheKey(LowHalf(cachekey), hash)
        addrOnly == ReplacementCacheKey(HighHalf(cachekey), hash)
        anyAddr  == ReplacementCacheKey(ZeroCacheKey, hash)
    IN  IF MapFind(map, key).found THEN MapFind(map, key)
        ELSE IF MapFind(map, clutOnly).found THEN MapFind(map, clutOnly)
        ELSE IF ~ignoreAddress /\ MapFind(map, noHash).found THEN MapFind(map, noHash)
        ELSE IF MapFind(map, noAddr).found THEN MapFind(map, noAddr)
        ELSE IF ~ignoreAddress /\ MapFind(map, addrOnly).found THEN MapFind(map, addrOnly)
        ELSE MapFind(map, anyAddr)

\* A lookup that finds an alias under the exact key only
LookupHashFile_ExactOnly(cachekey, hash) ==
    LET alias == MapFind(aliases_, ReplacementCacheKey(cachekey, hash))
    IN  IF alias.found
        THEN [hashfiles |-> aliases_[alias.key], foundAlias |-> TRUE,
              ignored |-> aliases_[alias.key] = EmptyString]
        ELSE [hashfiles |-> EmptyString, foundAlias |-> FALSE, ignored |-> FALSE]

\* LookupHashFile(cachekey, hash, &foundAlias, &ignored)
LookupHashFile(cachekey, hash) ==
    LET alias == LookupWildcard(aliases_, ReplacementCacheKey(cachekey, hash),
                                cachekey, hash, ignoreAddress_)
    IN  IF alias.found
        THEN [hashfiles |-> aliases_[alias.key], foundAlias |-> TRUE,
              ignored |-> aliases_[alias.key] = EmptyString]
        ELSE [hashfiles |-> EmptyString, foundAlias |-> FALSE, ignored |-> FALSE]

\* ------------------------------------------------------------------------
\* Configuration reload
\* ------------------------------------------------------------------------
NoAliases == [k \in {} |-> EmptyString]
NoRanges == [k \in {} |-> 0]

\* The values LoadIni resets the configuration to before it reads anything
ResetValues ==
    [hash_ |-> "quick", ignoreAddress_ |-> FALSE, ignoreMipmap_ |-> FALSE,
     reduceHash_ |-> FALSE, aliases_ |-> NoAliases, hashranges_ |-> NoRanges,
     reducehashranges_ |-> NoRanges]

\* options->Get(name, &value, value) and the sections of an ini: an ini is a
\* record of the options and sections it has; what it lacks keeps its value
Get(ini, name, value) == IF name \in DOMAIN ini THEN ini[name] ELSE value

RECURSIVE AliasOfLevels(_, _, _)
\* The loop over the levels of one key of filenameMap, in the order of the
\* std::map: rest are the levels not yet visited
AliasOfLevels(filenames, rest, mipIndex) ==
    IF rest = {} THEN EmptyString
    ELSE LET first == CHOOSE level \in rest : \A other \in rest : level <= other
         IN  IF first = mipIndex
             THEN filenames[first] \o <<"|">>
                      \o AliasOfLevels(filenames, rest \ {first}, mipIndex + 1)
             ELSE EmptyString

\* if (alias == "|") alias = "": the marker for no replacement
MarkerFor(alias) == IF alias = <<"|">> THEN EmptyString ELSE alias

\* The alias of one key
TranslatedAlias(filenames) == MarkerFor(AliasOfLevels(filenames, DOMAIN filenames, 0))

\* [hashes], read into filenameMap (the file name of each level of each key),
\* translated to the aliases
AliasMap(filenameMap) ==
    [key \in DOMAIN filenameMap |-> TranslatedAlias(filenameMap[key])]

\* Every entry of the section written over the map
Merged(section, map) ==
    [k \in DOMAIN section \cup DOMAIN map |->
        IF k \in DOMAIN section THEN section[k] ELSE map[k]]

\* LoadIniValues(ini, isOverride) on the values cfg: whether it succeeded and
\* the values it leaves behind
LoadIniValues(cfg, ini, isOverride) ==
    LET hash == Get(ini, "hash", "")
        mode == IF hash \in {"quick", "xxh32", "xxh64"} THEN hash ELSE cfg.hash_
    IN  IF hash \notin {"quick", "xxh32", "xxh64"} /\ (~isOverride \/ hash # "")
        THEN [ok |-> FALSE, cfg |-> cfg]
        ELSE [ok |-> TRUE,
              cfg |-> [hash_ |-> mode,
                       ignoreAddress_ |->
                           Get(ini, "ignoreAddress", cfg.ignoreAddress_) /\ mode # "quick",
                       ignoreMipmap_ |-> Get(ini, "ignoreMipmap", cfg.ignoreMipmap_),
                       reduceHash_ |->
                           Get(ini, "reduceHash", cfg.reduceHash_) /\ mode # "quick",
                       aliases_ |->
                           Merged(AliasMap(Get(ini, "hashes", NoAliases)), cfg.aliases_),
                       hashranges_ |->
                           Merged(Get(ini, "hashranges", NoRanges), cfg.hashranges_),
                       reducehashranges_ |->
                           Merged(Get(ini, "reducehashranges", NoRanges),
                                  cfg.reducehashranges_)]]

\* A LoadIni that goes on with the base values when the file named for the
\* game cannot be loaded
LoadIni_WithoutOverride(pack) ==
    LET base == LoadIniValues(ResetValues, pack.ini, FALSE)
    IN  IF ~pack.iniLoaded THEN [ok |-> ~pack.zip, cfg |-> ResetValues]
        ELSE IF ~base.ok THEN base
        ELSE IF "override" \notin DOMAIN pack THEN base
        ELSE IF ~pack.override.iniLoaded THEN base
        ELSE LoadIniValues(base.cfg, pack.override.ini, TRUE)

\* LoadIni(): pack is what is found under basePath_; pack.override, when the
\* [games] section names another ini for this game, is that file
LoadIni(pack) ==
    LET base == LoadIniValues(ResetValues, pack.ini, FALSE)
    IN  IF ~pack.iniLoaded THEN [ok |-> ~pack.zip, cfg |-> ResetValues]
        ELSE IF ~base.ok THEN base
        ELSE IF "override" \notin DOMAIN pack THEN base
        ELSE IF ~pack.override.iniLoaded THEN [ok |-> FALSE, cfg |-> base.cfg]
        ELSE LoadIniValues(base.cfg, pack.override.ini, TRUE)

\* ------------------------------------------------------------------------
\* ReplacedTexture (the parts the replacer relies on)
\* ------------------------------------------------------------------------
\* new ReplacedTexture(vfs_, desc): nothing is decoded yet
NewReplacedTexture(vfs, desc) ==
    [vfs_ |-> vfs, desc |-> desc, data |-> 0, lastUsed_ |-> 0,
     lock_ |-> FALSE, loading |-> FALSE]

\* Drops the pixel data if the texture was not used since the threshold.
PurgeIfNotUsedSinceTime(texture, thresholdScaled) ==
    IF texture.lastUsed_ * MAX_CACHE_SIZE < thresholdScaled
    THEN [texture EXCEPT !.data = 0]
    ELSE texture

GetTotalDataSize(texture) == texture.data

\* ------------------------------------------------------------------------
\* Decimate
\* ------------------------------------------------------------------------
Min(a, b) == IF a < b THEN a ELSE b

\* An age that treats ALL like FORCE_PRESSURE
DecimateAgeScaled_AllAsPressure(mode) ==
    IF mode = "FORCE_PRESSURE" \/ mode = "ALL" THEN AgePressure * MAX_CACHE_SIZE
    ELSE IF lastTextureCacheSizeGB_ > 1
    THEN AgePressure * MAX_CACHE_SIZE
         + (MAX_CACHE_SIZE - Min(MAX_CACHE_SIZE, lastTextureCacheSizeGB_)) * AgeSpan
    ELSE AgeDefault * MAX_CACHE_SIZE

\* An age whose pressure is not clamped to MAX_CACHE_SIZE
DecimateAgeScaled_NoClamp(mode) ==
    IF mode = "FORCE_PRESSURE" THEN AgePressure * MAX_CACHE_SIZE
    ELSE IF mode = "ALL" THEN 0
    ELSE IF lastTextureCacheSizeGB_ > 1
    THEN AgePressure * MAX_CACHE_SIZE
         + (MAX_CACHE_SIZE - lastTextureCacheSizeGB_) * AgeSpan
    ELSE AgeDefault * MAX_CACHE_SIZE

\* An age that drops as soon as the measured size reaches 1
DecimateAgeScaled_FromOne(mode) ==
    IF mode = "FORCE_PRESSURE" THEN AgePressure * MAX_CACHE_SIZE
    ELSE IF mode = "ALL" THEN 0
    ELSE IF lastTextureCacheSizeGB_ >= 1
    THEN AgePressure * MAX_CACHE_SIZE
         + (MAX_CACHE_SIZE - Min(MAX_CACHE_SIZE, lastTextureCacheSizeGB_)) * AgeSpan
    ELSE AgeDefault * MAX_CACHE_SIZE

\* age * MAX_CACHE_SIZE, age being the age Decimate computes for the mode
DecimateAgeScaled(mode) ==
    IF mode = "FORCE_PRESSURE" THEN AgePressure * MAX_CACHE_SIZE
    ELSE IF mode = "ALL" THEN 0
    ELSE IF lastTextureCacheSizeGB_ > 1
    THEN AgePressure * MAX_CACHE_SIZE
         + (MAX_CACHE_SIZE - Min(MAX_CACHE_SIZE, lastTextureCacheSizeGB_)) * AgeSpan
    ELSE AgeDefault * MAX_CACHE_SIZE

RECURSIVE SumSizes(_, _)
SumSizes(hs, ids) ==
    IF ids = {} THEN 0
    ELSE LET id == CHOOSE i \in ids : TRUE
         IN  GetTotalDataSize(hs[id]) + SumSizes(hs, ids \ {id})

\* The handles the sweep visits: the items of levelCache_
Resident == {levelCache_[s] : s \in DOMAIN levelCache_}

\* The sweep at clock reading t: the handles and the measured size after it
DecimateSweep(mode, t) ==
    LET threshold == t * MAX_CACHE_SIZE - DecimateAgeScaled(mode)
        swept == [id \in DOMAIN handles |->
                    IF id \in Resident
                    THEN PurgeIfNotUsedSinceTime(handles[id], threshold)
                    ELSE handles[id]]
    IN  [handles |-> swept, totalSizeGB |-> SumSizes(swept, Resident)]

\* A sweep that also drops the level cache items of the textures it purges
Decimate_DeletingItems(mode, dt) ==
    LET swept == DecimateSweep(mode, now + dt)
        purged == {id \in DOMAIN handles :
                     handles[id].data > 0 /\ swept.handles[id].data = 0}
        kept == {s \in DOMAIN levelCache_ : levelCache_[s] \notin purged}
    IN  /\ pc.at = "idle"
        /\ now + dt <= MaxTime
        /\ now' = now + dt
        /\ handles' = swept.handles
        /\ lastTextureCacheSizeGB_' = swept.totalSizeGB
        /\ levelCache_' = [s \in kept |-> levelCache_[s]]
        /\ last' = [op |-> "Decimate", mode |-> mode,
                    ageScaled |-> DecimateAgeScaled(mode),
                    sizeBefore |-> lastTextureCacheSizeGB_, purged |-> purged]
        /\ UNCHANGED <<configVars, cache_, saveVars, seen, reduceHashSize>>

Decimate(mode, dt) ==
    /\ pc.at = "idle"
    /\ now + dt <= MaxTime
    /\ now' = now + dt
    /\ handles' = DecimateSweep(mode, now + dt).handles
    /\ lastTextureCacheSizeGB_' = DecimateSweep(mode, now + dt).totalSizeGB
    /\ last' = [op |-> "Decimate", mode |-> mode,
                ageScaled |-> DecimateAgeScaled(mode),
                sizeBefore |-> lastTextureCacheSizeGB_,
                purged |-> {id \in DOMAIN handles :
                              handles[id].data > 0 /\ handles'[id].data = 0}]
    /\ UNCHANGED <<configVars, tierVars, saveVars, seen, reduceHashSize>>

\* A use of the texture by the renderer: decodes its levels if they are not
\* loaded (size GiB of them) and stamps the time of use.
UseTexture(id, size, dt) ==
    /\ pc.at = "idle"
    /\ id \in DOMAIN handles
    /\ now + dt <= MaxTime
    /\ now' = now + dt
    /\ handles' = [handles EXCEPT ![id].lastUsed_ = now + dt,
                                  ![id].data = IF @ = 0 THEN size ELSE @]
    /\ last' = [op |-> "UseTexture", id |-> id]
    /\ UNCHANGED <<configVars, tierVars, saveVars, lastTextureCacheSizeGB_, seen, reduceHashSize>>

\* ------------------------------------------------------------------------
\* NotifyConfigChanged
\* ------------------------------------------------------------------------
\* delete vfs_: what the textures hs refer to afterwards
VfsDeleted(hs) ==
    [id \in DOMAIN hs |->
        IF hs[id].vfs_ = LiveStore THEN [hs[id] EXCEPT !.vfs_ = DeletedStore]
        ELSE hs[id]]

\* for (auto &repl : levelCache_) repl.second->vfs_ = vfs_, once vfs_ is the
\* backend just opened
VfsUpdated(hs) ==
    [id \in DOMAIN hs |->
        IF id \in Resident THEN [hs[id] EXCEPT !.vfs_ = LiveStore] ELSE hs[id]]

NotifyConfigChanged(replace, save, isDirectory, pack, dt) ==
    LET wanted == replace \/ save
        dirOk == wanted /\ isDirectory
    IN  \E loaded \in {LoadIni(pack)} :
        /\ pc.at = "idle"
        /\ bReplaceTextures' = replace
        /\ bSaveNewTextures' = save
        /\ IF dirOk
           THEN /\ enabled_' = loaded.ok
                /\ hash_' = loaded.cfg.hash_
                /\ ignoreAddress_' = loaded.cfg.ignoreAddress_
                /\ ignoreMipmap_' = loaded.cfg.ignoreMipmap_
                /\ reduceHash_' = loaded.cfg.reduceHash_
                /\ aliases_' = loaded.cfg.aliases_
                /\ hashranges_' = loaded.cfg.hashranges_
                /\ reducehashranges_' = loaded.cfg.reducehashranges_
                /\ vfs_' = IF loaded.ok THEN LiveStore ELSE NullStore
                /\ handles' = IF loaded.ok THEN VfsUpdated(VfsDeleted(handles))
                              ELSE VfsDeleted(handles)
                /\ UNCHANGED <<now, lastTextureCacheSizeGB_>>
           ELSE /\ enabled_' = FALSE
                /\ UNCHANGED <<hash_, ignoreAddress_, ignoreMipmap_, aliases_,
                               hashranges_, reduceHash_, reducehashranges_>>
                /\ IF ~wanted /\ enabled_
                   THEN /\ now + dt <= MaxTime
                        /\ now' = now + dt
                        /\ vfs_' = NullStore
                        /\ handles' = VfsDeleted(DecimateSweep("ALL", now + dt).handles)
                        /\ lastTextureCacheSizeGB_' =
                               DecimateSweep("ALL", now + dt).totalSizeGB
                   ELSE UNCHANGED <<vfs_, handles, now, lastTextureCacheSizeGB_>>
        /\ last' = [op |-> "NotifyConfigChanged"]
        /\ UNCHANGED <<tierVars, saveVars, reduceHashSize, seen>>

\* ------------------------------------------------------------------------
\* ComputeHash
\* ------------------------------------------------------------------------
\* ((u64)addr << 32) | ((u64)w << 16) | h, for w and h below 65536: the
\* address and the 32 bits under it
RangeKey(addr, w, h) == [addr |-> addr, wh |-> w * 65536 + h]

\* ((u64)w << 16) | h
ReduceRangeKey(w, h) == w * 65536 + h

\* A lookup that finds the entry and leaves the size as it was
LookupHashRange_KeepsSize(addr, w, h) ==
    [found |-> RangeKey(addr, w, h) \in DOMAIN hashranges_, w |-> w, h |-> h]

\* LookupHashRange(addr, w, h, &newW, &newH)
LookupHashRange(addr, w, h) ==
    IF RangeKey(addr, w, h) \in DOMAIN hashranges_
    THEN [found |-> TRUE, w |-> hashranges_[RangeKey(addr, w, h)].first,
          h |-> hashranges_[RangeKey(addr, w, h)].second]
    ELSE [found |-> FALSE, w |-> w, h |-> h]

\* LookupReduceHashRange(w, h)
LookupReduceHashRange(w, h) ==
    IF ReduceRangeKey(w, h) \in DOMAIN reducehashranges_
    THEN reducehashranges_[ReduceRangeKey(w, h)]
    ELSE HalfFactor

\* (u32)(bytes * reduceHashSize), the factor being in quarters
Reduced(bytes, factor) == (bytes * factor) \div 4

\* A u32 is the record [hi, lo] of its two 16-bit halves
U32(hi, lo) == [hi |-> hi, lo |-> lo]

RECURSIVE Xor16(_, _)
\* a ^ b on 16-bit values
Xor16(a, b) ==
    IF a = 0 THEN b
    ELSE IF b = 0 THEN a
    ELSE ((a + b) % 2) + 2 * Xor16(a \div 2, b \div 2)

\* a ^ b
Xor32(a, b) == U32(Xor16(a.hi, b.hi), Xor16(a.lo, b.lo))

\* (u32)(a * 11)
Times11(a) == U32((a.hi * 11 + (a.lo * 11) \div 65536) % 65536, (a.lo * 11) % 65536)

\* A fold that adds the row hash instead of multiplying the running value
FoldRow_NoFactor(result, rowHash) == Xor32(result, rowHash)

\* result = (result * 11) ^ rowHash
FoldRow(result, rowHash) == Xor32(Times11(result), rowHash)

RECURSIVE FoldRows(_, _)
\* The loop over y < h; rows[y + 1] is the hash of row y
FoldRows(rows, h) ==
    IF h = 0 THEN U32(0, 0)
    ELSE FoldRow(FoldRows(rows, h - 1), rows[h])

\* ComputeHash(addr, bufw, w, h, fmt, maxSeenV): what it hashes and returns.
\* bpp is textureBitsPerPixel[fmt]; whole is what the hash function gives for
\* the contiguous bytes at addr and rows[y + 1] what it gives for row y.
ComputeHashOf(addr, bufw, w, h, bpp, maxSeenV, whole, rows) ==
    LET range == LookupHashRange(addr, w, h)
        h1 == IF ~range.found /\ h = 512 /\ maxSeenV < 512 /\ maxSeenV # 0
              THEN maxSeenV ELSE range.h
        w1 == range.w
        factor == IF reduceHash_ THEN LookupReduceHashRange(w1, h1) ELSE reduceHashSize
    IN  IF bufw <= w1
        THEN [contiguous |-> TRUE, w |-> w1, h |-> h1, factor |-> factor,
              bytes |-> Reduced((bpp * (bufw * h1 + (w1 - bufw))) \div 8, factor),
              result |-> whole]
        ELSE [contiguous |-> FALSE, w |-> w1, h |-> h1, factor |-> factor,
              bytes |-> Reduced((bpp * w1) \div 8, factor),
              rows |-> SubSeq(rows, 1, h1),
              result |-> FoldRows(rows, h1)]

ComputeHash(addr, bufw, w, h, bpp, maxSeenV, whole, rows) ==
    /\ pc.at = "idle"
    /\ enabled_
    /\ \E hashed \in {ComputeHashOf(addr, bufw, w, h, bpp, maxSeenV, whole, rows)} :
          /\ last' = [op |-> "ComputeHash",
                      args |-> [addr |-> addr, bufw |-> bufw, w |-> w, h |-> h,
                                bpp |-> bpp, maxSeenV |-> maxSeenV],
                      hashed |-> hashed]
          /\ reduceHashSize' = hashed.factor
    /\ UNCHANGED <<configVars, tierVars, handles, saveVars, now,
                   lastTextureCacheSizeGB_, seen>>

\* ------------------------------------------------------------------------
\* FindReplacement
\* ------------------------------------------------------------------------
\* A key that keeps its address whatever ignoreAddress_ is
AddressIgnored_Never(cachekey) == cachekey

\* if (ignoreAddress_) cachekey = cachekey & 0xFFFFFFFFULL
AddressIgnored(cachekey) == IF ignoreAddress_ THEN LowHalf(cachekey) ELSE cachekey

\* map.emplace(key, value): no effect when the key is present
Emplace(map, key, value) ==
    IF key \in DOMAIN map THEN map
    ELSE [k \in DOMAIN map \cup {key} |-> IF k = key THEN value ELSE map[k]]

\* A fast tier that never hits
CacheFind_AlwaysMiss(replacementKey) == [found |-> FALSE, texture |-> NullHandle]

\* cache_.find(replacementKey)
CacheFind(replacementKey) ==
    IF replacementKey \in DOMAIN cache_
    THEN [found |-> TRUE, texture |-> cache_[replacementKey].texture]
    ELSE [found |-> FALSE, texture |-> NullHandle]

\* The names generated for each level when there is no alias
GeneratedFilenames(cachekey, hash) ==
    [i \in 1..MAX_REPLACEMENT_MIP_LEVELS |-> HashName(cachekey, hash, i - 1) \o ".png"]

\* The ReplacementDesc FindReplacement fills in; cachekey is the key after the
\* ignoreAddress_ mask, found is what LookupHashFile returned for it.
MakeDesc(origCachekey, cachekey, hash, w, h, found) ==
    LET filenames == IF found.foundAlias THEN SplitString(found.hashfiles)
                     ELSE GeneratedFilenames(cachekey, hash)
    IN  [newW |-> LookupHashRange(origCachekey.hi, w, h).w,
         newH |-> LookupHashRange(origCachekey.hi, w, h).h, w |-> w, h |-> h,
         cachekey |-> origCachekey, hash |-> hash,
         filenames |-> filenames,
         logId |-> IF found.foundAlias THEN found.hashfiles ELSE <<filenames[1]>>,
         hashfiles |-> IF found.foundAlias THEN found.hashfiles ELSE <<filenames[1]>>]

\* The string the level cache is searched and filled with
LevelCacheKey(found, desc) == found.hashfiles

\* A level cache that never hits
LevelCacheFind_AlwaysMiss(hashfiles) == [found |-> FALSE, texture |-> NullHandle]

\* levelCache_.find(hashfiles)
LevelCacheFind(hashfiles) ==
    IF hashfiles \in DOMAIN levelCache_
    THEN [found |-> TRUE, texture |-> levelCache_[hashfiles]]
    ELSE [found |-> FALSE, texture |-> NullHandle]

\* The negative entry stored for an ignored texture
IgnoredRef == [hashfiles |-> EmptyString, texture |-> NullHandle]

\* An early-out that stores no negative entry
RememberIgnored_Nothing(replacementKey) == cache_

\* cache_ after the early-out for an ignored texture
RememberIgnored(replacementKey) == Emplace(cache_, replacementKey, IgnoredRef)

\* What the first resolution of these arguments gave (a record of the calls,
\* not state of the replacer)
Seen(args, ret, desc, found, resolved) ==
    IF args \in DOMAIN seen \/ ~resolved THEN seen
    ELSE [a \in DOMAIN seen \cup {args} |->
            IF a = args
            THEN [texture |-> ret, identity |-> desc.hashfiles,
                  filenames |-> desc.filenames,
                  foundAlias |-> found.foundAlias, ignored |-> found.ignored]
            ELSE seen[a]]

\* A test that lets lookups through while textures are only being saved
Replacing_WhenEnabled == enabled_

\* Enabled() && g_Config.bReplaceTextures
Replacing == enabled_ /\ bReplaceTextures

FindReplacement(cachekey, hash, w, h) ==
    LET replacementKey == ReplacementCacheKey(cachekey, hash)
        it == CacheFind(replacementKey)
        masked == AddressIgnored(cachekey)
        found == LookupHashFile(masked, hash)
        desc == MakeDesc(cachekey, masked, hash, w, h, found)
        hashfiles == LevelCacheKey(found, desc)
        iter == LevelCacheFind(hashfiles)
        texture == Len(handles) + 1
        args == [cachekey |-> cachekey, hash |-> hash, w |-> w, h |-> h]
        Returned(ret, resolved, constructed) ==
            /\ last' = [op |-> "FindReplacement", args |-> args,
                        on |-> Replacing,
                        first |-> args \notin DOMAIN seen, ret |-> ret,
                        resolved |-> resolved, constructed |-> constructed]
            /\ seen' = Seen(args, ret, desc, found, resolved)
    IN  /\ pc.at = "idle"
        /\ IF ~Replacing
           THEN /\ Returned(NullHandle, FALSE, FALSE)
                /\ UNCHANGED <<tierVars, handles>>
           ELSE IF it.found
           THEN /\ Returned(it.texture, FALSE, FALSE)
                /\ UNCHANGED <<tierVars, handles>>
           ELSE IF found.ignored
           THEN /\ cache_' = RememberIgnored(replacementKey)
                /\ Returned(NullHandle, TRUE, FALSE)
                /\ UNCHANGED <<levelCache_, handles>>
           ELSE IF iter.found
           THEN /\ cache_' = Emplace(cache_, replacementKey,
                                     [hashfiles |-> hashfiles, texture |-> iter.texture])
                /\ Returned(iter.texture, TRUE, FALSE)
                /\ UNCHANGED <<levelCache_, handles>>
           ELSE /\ handles' = Append(handles, NewReplacedTexture(vfs_, desc))
                /\ cache_' = Emplace(cache_, replacementKey,
                                     [hashfiles |-> hashfiles, texture |-> texture])
                /\ levelCache_' = Emplace(levelCache_, hashfiles, texture)
                /\ Returned(texture, TRUE, TRUE)
        /\ UNCHANGED <<configVars, saveVars, now, lastTextureCacheSizeGB_, reduceHashSize>>

\* ------------------------------------------------------------------------
\* NotifyTextureDecoded and the save tasks
\* ------------------------------------------------------------------------
Idle == [at |-> "idle"]

\* WillSave(replacedInfo); excluded stands for the PPGe address range and for
\* a video frame that allowVideo_ does not let through
WillSave(replacedInfo) == bSaveNewTextures /\ ~replacedInfo.excluded

\* A record of saved textures that never finds a key
SavedCacheFind_Never(replacementKey) == FALSE

\* savedCache_.find(replacementKey) != savedCache_.end()
SavedCacheFind(replacementKey) == replacementKey \in DOMAIN savedCache_

\* basePath_ / hashfile and newTextureDir_ / hashfile
BasePath(hashfile) == <<"base">> \o hashfile
NewTexturePath(hashfile) == <<"new">> \o hashfile

\* The SaveTextureTask built for the level
SaveTextureTask(replacedInfo, replacementKey, hashfile, level) ==
    [filename |-> BasePath(hashfile), saveFilename |-> NewTexturePath(hashfile),
     skipIfExists |-> FALSE,
     replacementKey |-> replacementKey, level |-> level,
     info |-> [cachekey |-> replacedInfo.cachekey, hash |-> replacedInfo.hash],
     ignoreAddress |-> ignoreAddress_,
     state |-> "queued"]

\* From the entry of NotifyTextureDecoded up to g_threadManager.EnqueueTask
NotifyTextureDecoded(replacedInfo, level) ==
    LET cachekey == AddressIgnored(replacedInfo.cachekey)
        found == LookupHashFile(cachekey, replacedInfo.hash)
        hashfile == <<HashName(cachekey, replacedInfo.hash, level) \o ".png">>
        replacementKey == ReplacementCacheKey(cachekey, replacedInfo.hash)
        Returned(passed, queued) ==
            [op |-> "NotifyTextureDecoded", cachekey |-> replacedInfo.cachekey,
             hash |-> replacedInfo.hash, level |-> level,
             replacementKey |-> replacementKey, passed |-> passed, queued |-> queued]
    IN  /\ pc.at = "idle"
        /\ enabled_
        /\ IF \/ ~WillSave(replacedInfo)
              \/ ignoreMipmap_ /\ level > 0
              \/ found.foundAlias \/ found.ignored
           THEN /\ last' = Returned(FALSE, FALSE)
                /\ UNCHANGED <<tasks, pc>>
           ELSE IF SavedCacheFind(replacementKey)
           THEN /\ last' = Returned(TRUE, FALSE)
                /\ UNCHANGED <<tasks, pc>>
           ELSE /\ Len(tasks) < MaxTasks
                /\ tasks' = Append(tasks, SaveTextureTask(replacedInfo, replacementKey,
                                                          hashfile, level))
                /\ pc' = [at |-> "enqueued", replacementKey |-> replacementKey,
                          level |-> level]
                /\ last' = Returned(TRUE, TRUE)
        /\ UNCHANGED <<configVars, tierVars, handles, savedCache_, files, now,
                       lastTextureCacheSizeGB_, seen, reduceHashSize>>

\* A record of saved textures that is never written
RememberSaved_Nothing(replacementKey, level) == savedCache_

\* A record of saved textures that keeps the last texture only
RememberSaved_OnlyLast(replacementKey, level) ==
    [k \in {replacementKey} |-> [levelSaved |-> {level}]]

\* savedCache_[replacementKey] with levelSaved[level] set
RememberSaved(replacementKey, level) ==
    IF replacementKey \in DOMAIN savedCache_
    THEN [savedCache_ EXCEPT ![replacementKey].levelSaved = @ \cup {level}]
    ELSE [k \in DOMAIN savedCache_ \cup {replacementKey} |->
            IF k = replacementKey THEN [levelSaved |-> {level}] ELSE savedCache_[k]]

\* The rest of NotifyTextureDecoded, after EnqueueTask has returned
NotifyRemember ==
    /\ pc.at = "enqueued"
    /\ savedCache_' = RememberSaved(pc.replacementKey, pc.level)
    /\ pc' = Idle
    /\ UNCHANGED <<configVars, tierVars, handles, tasks, files, now,
                   lastTextureCacheSizeGB_, last, seen, reduceHashSize>>

\* File::Exists(path)
FileExists(path) == path \in DOMAIN files

\* What WriteTextureToPNG can come to: the file is written, it cannot be
\* opened, or the encoder fails after it was opened
WriteOutcomes == {"written", "openFailed", "encodeFailed"}

\* WriteTextureToPNG(image, filename, ...): the files it leaves
WriteTextureToPNG(filename, outcome) ==
    IF outcome = "openFailed" THEN files
    ELSE IF outcome = "encodeFailed"
    THEN [path \in DOMAIN files \ {filename} |-> files[path]]
    ELSE [path \in DOMAIN files \cup {filename} |->
             IF path = filename THEN "saved" ELSE files[path]]

\* A task that writes without looking for the replacement file
SaveTextureTaskRun_NoLook(task, outcome) ==
    IF task.skipIfExists /\ FileExists(task.saveFilename) THEN files
    ELSE WriteTextureToPNG(task.saveFilename, outcome)

\* SaveTextureTask::Run(): the files it leaves
SaveTextureTaskRun(task, outcome) ==
    IF task.skipIfExists /\ FileExists(task.saveFilename) THEN files
    ELSE IF FileExists(task.filename) THEN files
    ELSE WriteTextureToPNG(task.saveFilename, outcome)

\* A worker of the thread pool runs a queued task
RunTask(i, outcome) ==
    /\ i \in DOMAIN tasks
    /\ tasks[i].state = "queued"
    /\ tasks' = [tasks EXCEPT ![i].state = "done"]
    /\ files' = SaveTextureTaskRun(tasks[i], outcome)
    /\ UNCHANGED <<configVars, tierVars, handles, savedCache_, pc, now,
                   lastTextureCacheSizeGB_, last, seen, reduceHashSize>>

\* ------------------------------------------------------------------------
\* Inputs
\* ------------------------------------------------------------------------
CacheKeys == {CacheKey(0, 1), CacheKey(1, 1)}
Hashes == {1, 2}
Levels == {0, 1}
Modes == {"NORMAL", "FORCE_PRESSURE", "ALL"}

\* A line of [hashes] for level 0 only
OneLevel(filename) == 0 :> filename
\* [hashes] of three texture packs
FooBarLevels == (0 :> <<"foo.png">>) @@ (1 :> <<"bar.png">>)
HashesShared ==
    (ReplacementCacheKey(CacheKey(0, 1), 1) :> FooBarLevels)
    @@ (ReplacementCacheKey(CacheKey(0, 1), 2) :> FooBarLevels)
    @@ (ReplacementCacheKey(CacheKey(1, 1), 0) :> OneLevel(EmptyString))
HashesWild ==
    (ReplacementCacheKey(CacheKey(0, 1), 1) :> OneLevel(<<"one.png">>))
    @@ (ReplacementCacheKey(ZeroCacheKey, 2) :> OneLevel(EmptyString))

Inis ==
    { [hash |-> "quick", ignoreAddress |-> FALSE, ignoreMipmap |-> FALSE,
       hashes |-> NoAliases],
      [hash |-> "xxh32", ignoreAddress |-> FALSE, ignoreMipmap |-> FALSE,
       hashes |-> HashesShared],
      [hash |-> "xxh64", ignoreAddress |-> TRUE, ignoreMipmap |-> TRUE,
       hashes |-> HashesWild],
      [hash |-> "md5", ignoreAddress |-> FALSE, ignoreMipmap |-> FALSE,
       hashes |-> HashesShared] }

\* Packs without a textures.ini: a plain directory, and a zip that lacks it
BarePacks == {[iniLoaded |-> FALSE, zip |-> z] : z \in BOOLEAN}

\* ------------------------------------------------------------------------
\* The replacer after construction, before Init()
\* ------------------------------------------------------------------------
Init ==
    /\ bReplaceTextures = FALSE
    /\ bSaveNewTextures = FALSE
    /\ enabled_ = FALSE
    /\ hash_ = "quick"
    /\ ignoreAddress_ = FALSE
    /\ ignoreMipmap_ = FALSE
    /\ aliases_ = NoAliases
    /\ hashranges_ = NoRanges
    /\ reduceHash_ = FALSE
    /\ reducehashranges_ = NoRanges
    /\ reduceHashSize = FullFactor
    /\ vfs_ = NullStore
    /\ files = NoFiles
    /\ cache_ = [k \in {} |-> IgnoredRef]
    /\ levelCache_ = [k \in {} |-> NullHandle]
    /\ handles = << >>
    /\ savedCache_ = [k \in {} |-> [levelSaved |-> {}]]
    /\ tasks = << >>
    /\ pc = Idle
    /\ now = 0
    /\ lastTextureCacheSizeGB_ = 0
    /\ last = [op |-> "none"]
    /\ seen = [a \in {} |-> [texture |-> NullHandle]]

\* ------------------------------------------------------------------------
\* The lookup tiers: reloads, lookups, sweeps and decode notifications
\* ------------------------------------------------------------------------
CachePacks ==
    {[iniLoaded |-> TRUE, zip |-> FALSE, ini |-> ini] : ini \in {i \in Inis : i.hash # "md5"}}
FindKeys ==
    { ReplacementCacheKey(CacheKey(0, 1), 1), ReplacementCacheKey(CacheKey(0, 1), 2),
      ReplacementCacheKey(CacheKey(1, 1), 1) }
CacheStep == 200

Reload ==
    \E replace, save \in BOOLEAN, pack \in CachePacks :
        NotifyConfigChanged(replace, save, TRUE, pack, CacheStep)

Find ==
    \E key \in FindKeys :
        FindReplacement(key.cachekey, key.hash, 512, 512)

Sweep == \E mode \in Modes : Decimate(mode, CacheStep)

Decoded ==
    NotifyTextureDecoded([cachekey |-> CacheKey(1, 1), hash |-> 1,
                          excluded |-> FALSE], 0)

Next ==
    \/ Reload
    \/ Find
    \/ Sweep
    \/ Decoded
    \/ NotifyRemember
    \/ \E i \in 1..MaxTasks : RunTask(i, "written")

Spec == Init /\ [][Next]_vars

\* ------------------------------------------------------------------------
\* Properties of the lookup tiers
\* ------------------------------------------------------------------------
\* The last call was FindReplacement on arguments resolved by an earlier call
LaterFind ==
    /\ last.op = "FindReplacement"
    /\ ~last.first
    /\ last.args \in DOMAIN seen

\* The key of the last FindReplacement call as LookupHashFile gets it now
LastMasked ==
    IF ignoreAddress_ THEN LowHalf(last.args.cachekey) ELSE last.args.cachekey

\* C1: while the cache is enabled and replacement is on, a FindReplacement call
\* on arguments whose first resolution returned a handle returns that same
\* handle and constructs none, whatever calls happened in between.
C1_Idempotent ==
    (LaterFind /\ last.on /\ seen[last.args].texture # NullHandle)
        => (last.ret = seen[last.args].texture /\ ~last.constructed)

\* C1 happens: a later call returned the first handle although other keys were
\* looked up, a sweep ran and the alias table now names other files for the key
C1_Witness ==
    /\ LaterFind /\ last.on
    /\ last.ret # NullHandle
    /\ Cardinality(DOMAIN seen) > 1
    /\ now > 0
    /\ LookupHashFile(LastMasked, last.args.hash).hashfiles # seen[last.args].identity

\* C2: the keys whose resolution gave the same identity string share one handle,
\* and no two handles were constructed for one identity.
C2_OneHandlePerIdentity ==
    /\ \A a, b \in DOMAIN seen :
          (~seen[a].ignored /\ ~seen[b].ignored /\ seen[a].identity = seen[b].identity)
              => seen[a].texture = seen[b].texture
    /\ \A i, j \in DOMAIN handles :
          handles[i].desc.hashfiles = handles[j].desc.hashfiles => i = j

\* C2 happens: two different keys with the same alias file list hold one handle
C2_Witness ==
    \E a, b \in DOMAIN seen :
        /\ a # b
        /\ seen[a].foundAlias /\ seen[b].foundAlias
        /\ seen[a].texture # NullHandle
        /\ seen[a].identity = seen[b].identity
        /\ seen[a].texture = seen[b].texture
        /\ Len(handles) > 1

\* C3: an un-aliased key is looked up and registered in the level cache under
\* the identity made of its generated file names: the handle it gets was
\* constructed with its own file names, and un-aliased keys with different
\* identities get different handles.
C3_DefaultIdentity ==
    /\ \A a \in DOMAIN seen :
          (~seen[a].foundAlias /\ seen[a].texture # NullHandle)
              => handles[seen[a].texture].desc.filenames = seen[a].filenames
    /\ \A a, b \in DOMAIN seen :
          (~seen[a].foundAlias /\ ~seen[b].foundAlias
           /\ seen[a].texture # NullHandle /\ seen[b].texture # NullHandle
           /\ seen[a].identity # seen[b].identity)
              => seen[a].texture # seen[b].texture

\* C4: once a key resolved to an explicit empty alias, a later FindReplacement
\* for it returns nothing without resolving again and without constructing.
C4_IgnoredMemoized ==
    (LaterFind /\ seen[last.args].ignored)
        => (last.ret = NullHandle /\ ~last.resolved /\ ~last.constructed)

\* C4 happens: an ignored key was looked up again while the cache was on
C4_Witness ==
    /\ LaterFind /\ last.on
    /\ seen[last.args].ignored
    /\ last.ret = NullHandle

\* ------------------------------------------------------------------------
\* The sweep: textures are looked up, used and decimated as time passes
\* ------------------------------------------------------------------------
HashesTwo ==
    (ReplacementCacheKey(CacheKey(0, 1), 1) :> OneLevel(<<"one.png">>))
    @@ (ReplacementCacheKey(CacheKey(0, 1), 2) :> OneLevel(<<"two.png">>))
    @@ (ReplacementCacheKey(CacheKey(1, 1), 1) :> OneLevel(EmptyString))
EvictPack ==
    [iniLoaded |-> TRUE, zip |-> FALSE,
     ini |-> [hash |-> "xxh32", ignoreAddress |-> FALSE, ignoreMipmap |-> FALSE,
              hashes |-> HashesTwo]]
\* Seconds between two readings of the clock
EvictSteps == {45, 90}
\* GiB of pixel data a texture decodes to
DataSizes == {1, 3}

EvictReload ==
    \E replace \in BOOLEAN, dt \in EvictSteps :
        NotifyConfigChanged(replace, FALSE, TRUE, EvictPack, dt)

EvictUse ==
    \E id \in DOMAIN handles, size \in DataSizes, dt \in EvictSteps :
        UseTexture(id, size, dt)

EvictSweep == \E mode \in Modes, dt \in EvictSteps : Decimate(mode, dt)

NextEvict ==
    \/ EvictReload
    \/ Find
    \/ EvictUse
    \/ EvictSweep

SpecEvict == Init /\ [][NextEvict]_vars

\* ------------------------------------------------------------------------
\* Properties of the sweep
\* ------------------------------------------------------------------------
\* Seconds since the texture was last used, at the last reading of the clock
IdleFor(id) == now - handles[id].lastUsed_

\* C8: after Decimate(ALL) every texture has lost its pixel data, however
\* recently it was used, and the measured size is 0.
C8_ForcedClearsAll ==
    (last.op = "Decimate" /\ last.mode = "ALL")
        => /\ \A id \in DOMAIN handles : handles[id].data = 0
           /\ lastTextureCacheSizeGB_ = 0

\* C8 happens: a forced sweep purged two textures, one used 45 s before it
C8_Witness ==
    /\ last.op = "Decimate" /\ last.mode = "ALL"
    /\ Cardinality(last.purged) = 2
    /\ \E id \in last.purged : IdleFor(id) < 90

\* C9: Decimate(NORMAL) purges no texture used within the last 90 seconds,
\* whatever size the sweep before it measured: its age is never below 90 s.
C9_NormalKeepsRecent ==
    (last.op = "Decimate" /\ last.mode = "NORMAL")
        => /\ \A id \in last.purged : IdleFor(id) > 90
           /\ last.ageScaled >= 90 * MAX_CACHE_SIZE

\* C9 happens: after a sweep that measured more than MAX_CACHE_SIZE, a normal
\* sweep purged one texture and kept one used exactly 90 s before it
C9_Witness ==
    /\ last.op = "Decimate" /\ last.mode = "NORMAL"
    /\ last.sizeBefore > MAX_CACHE_SIZE
    /\ last.purged # {}
    /\ \E id \in DOMAIN handles : handles[id].data > 0 /\ IdleFor(id) = 90

\* C10: a Decimate step, in any mode, leaves cache_ and levelCache_ as they
\* were and changes nothing of a texture but its pixel data; the configuration
\* and the save records stay too.
C10_SweepKeepsTiers ==
    [][(last'.op = "Decimate" /\ now' # now)
          => /\ cache_' = cache_
             /\ levelCache_' = levelCache_
             /\ DOMAIN handles' = DOMAIN handles
             /\ \A id \in DOMAIN handles :
                   /\ handles'[id].desc = handles[id].desc
                   /\ handles'[id].lastUsed_ = handles[id].lastUsed_
                   /\ handles'[id].data \in {0, handles[id].data}
             /\ UNCHANGED <<configVars, saveVars, reduceHashSize>>]_vars

\* C10 happens: a sweep purged a texture that a positive entry of cache_ refers
\* to, while cache_ also holds a negative entry
C10_Witness ==
    /\ last.op = "Decimate"
    /\ \E k \in DOMAIN cache_ : cache_[k].texture \in last.purged
    /\ \E k \in DOMAIN cache_ : cache_[k].texture = NullHandle
    /\ \A k \in DOMAIN cache_ :
          cache_[k].texture # NullHandle
              => levelCache_[cache_[k].hashfiles] = cache_[k].texture

\* ------------------------------------------------------------------------
\* Saving: decoded textures are reported while the configuration is reloaded
\* ------------------------------------------------------------------------
\* [hashes] that ignores the textures of hash 1 at every address
HashesAnyAddress == ReplacementCacheKey(ZeroCacheKey, 1) :> OneLevel(EmptyString)

SaveInis ==
    { [hash |-> "quick", ignoreAddress |-> FALSE, ignoreMipmap |-> FALSE,
       hashes |-> NoAliases],
      [hash |-> "xxh32", ignoreAddress |-> TRUE, ignoreMipmap |-> FALSE,
       hashes |-> NoAliases],
      [hash |-> "xxh64", ignoreAddress |-> TRUE, ignoreMipmap |-> TRUE,
       hashes |-> HashesWild],
      [hash |-> "xxh32", ignoreAddress |-> FALSE, ignoreMipmap |-> FALSE,
       hashes |-> HashesAnyAddress] }
SavePacks ==
    {[iniLoaded |-> TRUE, zip |-> FALSE, ini |-> ini] :
        ini \in SaveInis \cup {i \in Inis : i.hash = "md5"}}
    \cup BarePacks

SaveReload ==
    \E replace, save \in BOOLEAN, pack \in SavePacks :
        NotifyConfigChanged(replace, save, TRUE, pack, CacheStep)

SaveDecoded ==
    \E cachekey \in CacheKeys, excluded \in BOOLEAN, level \in Levels :
        NotifyTextureDecoded([cachekey |-> cachekey, hash |-> 1,
                              excluded |-> excluded], level)

SaveFind == FindReplacement(CacheKey(1, 1), 1, 512, 512)

NextSave ==
    \/ SaveReload
    \/ SaveDecoded
    \/ NotifyRemember
    \/ \E i \in 1..MaxTasks : RunTask(i, "written")
    \/ SaveFind

SpecSave == Init /\ [][NextSave]_vars

\* ------------------------------------------------------------------------
\* Properties of saving
\* ------------------------------------------------------------------------
\* The texture and level a task saves, as NotifyTextureDecoded was given them
SameDecode(i, j) ==
    tasks[i].info = tasks[j].info /\ tasks[i].level = tasks[j].level

\* The last call was a NotifyTextureDecoded that no check turned away
LastPassed == last.op = "NotifyTextureDecoded" /\ last.passed

\* C6 as stated: whatever happens between them, the NotifyTextureDecoded calls
\* with one (cachekey, hash, level) queue no more than one task.
C6_OneTaskPerDecode ==
    \A i, j \in DOMAIN tasks : SameDecode(i, j) => i = j

\* C6, for calls made under one ignoreAddress setting: no two tasks were queued
\* for one key of savedCache_, so none for one (cachekey, hash, level) either,
\* and a call that passed the checks has its task queued, run or not.
C6_OneTaskPerAddressKey ==
    /\ \A i, j \in DOMAIN tasks :
          tasks[i].replacementKey = tasks[j].replacementKey => i = j
    /\ \A i, j \in DOMAIN tasks :
          (SameDecode(i, j) /\ tasks[i].ignoreAddress = tasks[j].ignoreAddress) => i = j
    /\ LastPassed => \E i \in DOMAIN tasks : tasks[i].replacementKey = last.replacementKey

\* C6 happens: a call that passed the checks queued nothing because the task of
\* an earlier call with the same arguments, not yet run, is there; another
\* texture was queued as well
C6_Witness ==
    /\ LastPassed /\ ~last.queued
    /\ Len(tasks) > 1
    /\ \E i \in DOMAIN tasks :
          /\ tasks[i].info = [cachekey |-> last.cachekey, hash |-> last.hash]
          /\ tasks[i].level = last.level
          /\ tasks[i].ignoreAddress = ignoreAddress_
          /\ tasks[i].state = "queued"

\* The record of saved textures has the task's key and level
Remembered(i) ==
    /\ tasks[i].replacementKey \in DOMAIN savedCache_
    /\ tasks[i].level \in savedCache_[tasks[i].replacementKey].levelSaved

\* C7 as stated: no task is queued or running while savedCache_ lacks its key.
C7_RecordBeforeTask ==
    \A i \in DOMAIN tasks : tasks[i].replacementKey \in DOMAIN savedCache_

\* C7, with the order the code has: once NotifyTextureDecoded has returned,
\* savedCache_ has the key and level of every task; between EnqueueTask and the
\* return only the task just queued can lack its record.
C7_RecordByReturn ==
    /\ pc.at = "idle" => \A i \in DOMAIN tasks : Remembered(i)
    /\ pc.at = "enqueued" =>
          /\ tasks # << >>
          /\ tasks[Len(tasks)].replacementKey = pc.replacementKey
          /\ tasks[Len(tasks)].level = pc.level
          /\ \A i \in 1..(Len(tasks) - 1) : Remembered(i)

\* C7 happens: NotifyTextureDecoded has returned after queueing a task that no
\* worker has run yet, and the record is there
C7_Witness ==
    /\ pc.at = "idle"
    /\ LastPassed /\ last.queued
    /\ tasks # << >>
    /\ tasks[Len(tasks)].state = "queued"
    /\ tasks[Len(tasks)].replacementKey = last.replacementKey
    /\ Remembered(Len(tasks))

\* ------------------------------------------------------------------------
\* The wildcard resolver, applied to the alias tables a pack can register
\* ------------------------------------------------------------------------
\* The keys a [hashes] section can register for the texture (1:1, 1)
WildKeys ==
    << ReplacementCacheKey(CacheKey(1, 1), 1), ReplacementCacheKey(CacheKey(0, 1), 0),
       ReplacementCacheKey(CacheKey(1, 1), 0), ReplacementCacheKey(CacheKey(0, 1), 1),
       ReplacementCacheKey(CacheKey(1, 0), 1), ReplacementCacheKey(ZeroCacheKey, 1) >>

\* The file the i-th of these keys is given
WildFile(i) == <<"w" \o ToString(i) \o ".png", "|">>

\* The table that registers the keys numbered in S
WildTable(S) ==
    [k \in {WildKeys[i] : i \in S} |-> WildFile(CHOOSE i \in S : WildKeys[i] = k)]

InitWild ==
    /\ bReplaceTextures = TRUE
    /\ bSaveNewTextures = FALSE
    /\ enabled_ = TRUE
    /\ hash_ = "xxh32"
    /\ ignoreAddress_ \in BOOLEAN
    /\ ignoreMipmap_ = FALSE
    /\ aliases_ \in {WildTable(S) : S \in SUBSET DOMAIN WildKeys}
    /\ hashranges_ = NoRanges
    /\ reduceHash_ = FALSE
    /\ reducehashranges_ = NoRanges
    /\ reduceHashSize = FullFactor
    /\ vfs_ = LiveStore
    /\ files = NoFiles
    /\ cache_ = [k \in {} |-> IgnoredRef]
    /\ levelCache_ = [k \in {} |-> NullHandle]
    /\ handles = << >>
    /\ savedCache_ = [k \in {} |-> [levelSaved |-> {}]]
    /\ tasks = << >>
    /\ pc = Idle
    /\ now = 0
    /\ lastTextureCacheSizeGB_ = 0
    /\ last = [op |-> "none"]
    /\ seen = [a \in {} |-> [texture |-> NullHandle]]

\* LookupHashFile(cachekey, hash), with what its LookupWildcard call returned
WildLookup(cachekey, hash) ==
    /\ last' = [op |-> "LookupHashFile", cachekey |-> cachekey, hash |-> hash,
                alias |-> LookupWildcard(aliases_, ReplacementCacheKey(cachekey, hash),
                                         cachekey, hash, ignoreAddress_),
                ret |-> LookupHashFile(cachekey, hash)]
    /\ UNCHANGED <<configVars, tierVars, handles, saveVars, now,
                   lastTextureCacheSizeGB_, seen, reduceHashSize>>

NextWild == \E cachekey \in CacheKeys, hash \in Hashes : WildLookup(cachekey, hash)

SpecWild == InitWild /\ [][NextWild]_vars

\* ------------------------------------------------------------------------
\* Properties of the wildcard resolver
\* ------------------------------------------------------------------------
\* The keys tried for (cachekey, hash), in order
WildOrder(cachekey, hash, ignoreAddress) ==
    LET exact == <<ReplacementCacheKey(cachekey, hash)>>
        step2 == <<ReplacementCacheKey(LowHalf(cachekey), 0)>>
        step3 == IF ignoreAddress THEN << >> ELSE <<ReplacementCacheKey(cachekey, 0)>>
        step4 == <<ReplacementCacheKey(LowHalf(cachekey), hash)>>
        step5 == IF ignoreAddress THEN << >>
                 ELSE <<ReplacementCacheKey(HighHalf(cachekey), hash)>>
        step6 == <<ReplacementCacheKey(ZeroCacheKey, hash)>>
    IN  exact \o step2 \o step3 \o step4 \o step5 \o step6

\* The positions of WildOrder whose key the alias table registers
Registered(order) == {i \in DOMAIN order : order[i] \in DOMAIN aliases_}

\* C5: the resolver returns the entry of the first key of the order (exact; low
\* half, 0; whole key, 0; low half, hash; high half, hash; 0, hash; the third
\* and fifth left out under ignoreAddress) that the table registers, and no
\* entry when it registers none; so an entry at the exact key wins.
C5_FirstInOrder ==
    last.op = "LookupHashFile" =>
        LET order == WildOrder(last.cachekey, last.hash, ignoreAddress_)
            first == CHOOSE i \in Registered(order) : \A j \in Registered(order) : i <= j
        IN  /\ last.alias.found = (Registered(order) # {})
            /\ last.ret.foundAlias = last.alias.found
            /\ last.alias.found =>
                  /\ last.alias.key = order[first]
                  /\ last.ret.hashfiles = aliases_[order[first]]
            /\ order[1] \in DOMAIN aliases_ => last.alias.key = order[1]

\* C5 happens: with the address honoured and the exact key unregistered, the
\* entry at (cachekey, 0) was returned although the table also registers the
\* three keys tried after it
C5_Witness ==
    /\ last.op = "LookupHashFile"
    /\ ~ignoreAddress_
    /\ HighHalf(last.cachekey) # ZeroCacheKey
    /\ last.alias.found
    /\ last.alias.key = ReplacementCacheKey(last.cachekey, 0)
    /\ last.alias.key # ReplacementCacheKey(LowHalf(last.cachekey), 0)
    /\ { ReplacementCacheKey(LowHalf(last.cachekey), last.hash),
         ReplacementCacheKey(HighHalf(last.cachekey), last.hash),
         ReplacementCacheKey(ZeroCacheKey, last.hash) } \subseteq DOMAIN aliases_

\* The alias table has an entry for the key, at the key itself or at one of
\* the keys LookupWildcard relaxes it to
Covered(key) ==
    LookupWildcard(aliases_, key, key.cachekey, key.hash, ignoreAddress_).found

\* The key NotifyTextureDecoded makes of the arguments of the call in last
DecodedKey(call) ==
    ReplacementCacheKey(IF ignoreAddress_ THEN LowHalf(call.cachekey) ELSE call.cachekey,
                        call.hash)

\* C12: a NotifyTextureDecoded call whose key the alias table covers, exactly
\* or through a relaxed key, with file names or with the empty alias, queues no
\* task and writes no record; the key of a task that gets queued is not covered
\* when it is queued.
C12_CoveredNotSaved ==
    [][/\ (pc.at = "idle" /\ last'.op = "NotifyTextureDecoded" /\ Covered(DecodedKey(last')))
            => /\ Len(tasks') = Len(tasks)
               /\ savedCache_' = savedCache_
               /\ pc'.at = "idle"
               /\ ~last'.queued
       /\ Len(tasks') > Len(tasks)
            => ~Covered(tasks'[Len(tasks')].replacementKey)]_vars

\* C12 happens: with saving on, the last call was turned away for a key that
\* only a relaxed key of the alias table covers, and nothing is recorded for it
C12_Witness ==
    /\ last.op = "NotifyTextureDecoded"
    /\ bSaveNewTextures /\ enabled_
    /\ ~last.passed
    /\ Covered(DecodedKey(last))
    /\ DecodedKey(last) \notin DOMAIN aliases_
    /\ last.replacementKey = DecodedKey(last)
    /\ last.replacementKey \notin DOMAIN savedCache_
    /\ \A i \in DOMAIN tasks : tasks[i].replacementKey # last.replacementKey

\* ------------------------------------------------------------------------
\* Storage: save tasks run over the files earlier sessions left behind
\* ------------------------------------------------------------------------
\* The level 0 files of the two textures that get decoded
StoreNames ==
    {<<HashName(cachekey, 1, 0) \o ".png">> : cachekey \in CacheKeys}
StorePaths ==
    {BasePath(name) : name \in StoreNames} \cup {NewTexturePath(name) : name \in StoreNames}

InitStore ==
    /\ bReplaceTextures = FALSE
    /\ bSaveNewTextures = FALSE
    /\ enabled_ = FALSE
    /\ hash_ = "quick"
    /\ ignoreAddress_ = FALSE
    /\ ignoreMipmap_ = FALSE
    /\ aliases_ = NoAliases
    /\ hashranges_ = NoRanges
    /\ reduceHash_ = FALSE
    /\ reducehashranges_ = NoRanges
    /\ reduceHashSize = FullFactor
    /\ vfs_ = NullStore
    /\ files \in {[path \in P |-> "old"] : P \in SUBSET StorePaths}
    /\ cache_ = [k \in {} |-> IgnoredRef]
    /\ levelCache_ = [k \in {} |-> NullHandle]
    /\ handles = << >>
    /\ savedCache_ = [k \in {} |-> [levelSaved |-> {}]]
    /\ tasks = << >>
    /\ pc = Idle
    /\ now = 0
    /\ lastTextureCacheSizeGB_ = 0
    /\ last = [op |-> "none"]
    /\ seen = [a \in {} |-> [texture |-> NullHandle]]

StorePack ==
    [iniLoaded |-> TRUE, zip |-> FALSE,
     ini |-> [hash |-> "quick", ignoreAddress |-> FALSE, ignoreMipmap |-> FALSE,
              hashes |-> NoAliases]]

StoreReload ==
    \E save \in BOOLEAN : NotifyConfigChanged(FALSE, save, TRUE, StorePack, CacheStep)

StoreDecoded ==
    \E cachekey \in CacheKeys :
        NotifyTextureDecoded([cachekey |-> cachekey, hash |-> 1, excluded |-> FALSE], 0)

StoreRun == \E i \in 1..MaxTasks, outcome \in WriteOutcomes : RunTask(i, outcome)

NextStore ==
    \/ StoreReload
    \/ StoreDecoded
    \/ NotifyRemember
    \/ StoreRun

SpecStore == InitStore /\ [][NextStore]_vars

\* ------------------------------------------------------------------------
\* Properties of the save task
\* ------------------------------------------------------------------------
\* This step is the run of task i
Runs(i) == tasks[i].state = "queued" /\ tasks'[i].state = "done"

\* C11 as stated: a task that finds its destination file in the new-textures
\* directory, or the replacement file in the base directory, leaves every file
\* as it is.
C11_SkipsExisting ==
    [][\A i \in DOMAIN tasks :
          (Runs(i) /\ (FileExists(tasks[i].saveFilename) \/ FileExists(tasks[i].filename)))
              => files' = files]_vars

\* C11, for the replacement file only: a task that finds the replacement file
\* in the base directory leaves every file as it is; any other task touches
\* nothing but its destination file, which it writes also when the file exists.
C11_SkipsReplaced ==
    [][\A i \in DOMAIN tasks :
          Runs(i) =>
              /\ FileExists(tasks[i].filename) => files' = files
              /\ \A path \in (DOMAIN files \cup DOMAIN files') \ {tasks[i].saveFilename} :
                    /\ path \in DOMAIN files /\ path \in DOMAIN files'
                    /\ files'[path] = files[path]]_vars

\* C11 happens: a task has run while the replacement file was there, and no
\* destination file has appeared
C11_Witness ==
    \E i \in DOMAIN tasks :
        /\ tasks[i].state = "done"
        /\ FileExists(tasks[i].filename)
        /\ ~FileExists(tasks[i].saveFilename)

\* ------------------------------------------------------------------------
\* Reloads: packs that load, packs that do not, and lookups in between
\* ------------------------------------------------------------------------
\* textures.ini files: two that load, one without hash option, one with a hash
\* that is not supported
LoadInis ==
    { [hash |-> "quick", hashes |-> NoAliases],
      [hash |-> "xxh32", ignoreAddress |-> FALSE, hashes |-> HashesShared],
      [hashes |-> HashesShared],
      [hash |-> "md5", hashes |-> HashesShared] }

\* Files the [games] section can name: one that is not there, one that only
\* sets options, one that asks for a hash that is not supported
LoadOverrides ==
    { [iniLoaded |-> FALSE],
      [iniLoaded |-> TRUE, ini |-> [ignoreAddress |-> TRUE, hashes |-> HashesWild]],
      [iniLoaded |-> TRUE, ini |-> [hash |-> "md5"]] }

LoadPacks ==
    {[iniLoaded |-> TRUE, zip |-> FALSE, ini |-> ini] : ini \in LoadInis}
    \cup {[iniLoaded |-> TRUE, zip |-> TRUE, ini |-> ini, override |-> o] :
             ini \in LoadInis, o \in LoadOverrides}
    \cup BarePacks

LoadReload ==
    \E replace \in BOOLEAN, pack \in LoadPacks :
        NotifyConfigChanged(replace, FALSE, TRUE, pack, CacheStep)

NextLoad ==
    \/ LoadReload
    \/ Find

SpecLoad == Init /\ [][NextLoad]_vars

\* ------------------------------------------------------------------------
\* Properties of reloads
\* ------------------------------------------------------------------------
SupportedHashes == {"quick", "xxh32", "xxh64"}

\* The pack cannot be trusted: the hash option of its textures.ini is missing
\* or not supported, or the file named for the game does not load or asks for
\* a hash that is not supported
BadPack(pack) ==
    /\ pack.iniLoaded
    /\ \/ "hash" \notin DOMAIN pack.ini
       \/ pack.ini.hash \notin SupportedHashes
       \/ /\ "override" \in DOMAIN pack
          /\ \/ ~pack.override.iniLoaded
             \/ /\ "hash" \in DOMAIN pack.override.ini
                /\ pack.override.ini.hash \notin SupportedHashes

\* C13: a NotifyConfigChanged that finds such a pack leaves enabled_ false;
\* enabled_ changes in no other call, and while it is false FindReplacement
\* returns nothing, whatever the key.
C13_BadPackDisables ==
    [][/\ \A replace \in BOOLEAN, pack \in LoadPacks :
             (/\ last'.op = "NotifyConfigChanged"
              /\ BadPack(pack)
              /\ NotifyConfigChanged(replace, FALSE, TRUE, pack, CacheStep))
                 => ~enabled_'
       /\ enabled_' # enabled_ => last'.op = "NotifyConfigChanged"
       /\ (~enabled_ /\ last'.op = "FindReplacement")
             => (last'.ret = NullHandle /\ ~last'.resolved /\ ~last'.constructed)]_vars

\* C13 happens: replacement is wanted and textures were handed out before, the
\* base ini loaded with xxh32, the file named for the game did not, and the
\* lookup that followed returned nothing
C13_Witness ==
    /\ bReplaceTextures /\ ~enabled_
    /\ hash_ = "xxh32"
    /\ handles # << >>
    /\ last.op = "FindReplacement"
    /\ ReplacementCacheKey(last.args.cachekey, last.args.hash) \in DOMAIN cache_
    /\ cache_[ReplacementCacheKey(last.args.cachekey, last.args.hash)].texture # NullHandle
    /\ last.ret = NullHandle

\* ------------------------------------------------------------------------
\* Hashing: reloads with hash ranges and reduced hashing, hashes and lookups
\* ------------------------------------------------------------------------
Ranges512 == RangeKey(1, 512, 512) :> [first |-> 480, second |-> 272]
Ranges8 == RangeKey(1, 8, 3) :> [first |-> 4, second |-> 2]
QuarterFor4x2 == ReduceRangeKey(4, 2) :> 1

HashInis ==
    { [hash |-> "xxh32"],
      [hash |-> "xxh32", hashranges |-> Ranges512 @@ Ranges8,
       reduceHash |-> TRUE, reducehashranges |-> QuarterFor4x2],
      [hash |-> "xxh64", reduceHash |-> TRUE],
      [hash |-> "quick", hashranges |-> Ranges512, reduceHash |-> TRUE] }

HashPacks == {[iniLoaded |-> TRUE, zip |-> FALSE, ini |-> ini] : ini \in HashInis}

\* What the hash function gives for a row, or for the whole texture
RowHashes == {U32(0, 0), U32(32768, 0), U32(1, 5)}
MaxRows == 3

\* Calls of ComputeHash: the large texture of a game, its rows either all
\* used or 272 of them seen, and a small texture in a wider buffer
HashCalls ==
    { [bufw |-> 480, w |-> 512, h |-> 512, bpp |-> bpp, maxSeenV |-> seenV,
       whole |-> U32(1, 5), rows |-> << >>] :
         bpp \in {4, 32}, seenV \in {0, 100, 512} }
    \cup { [bufw |-> 16, w |-> 8, h |-> 3, bpp |-> 16, maxSeenV |-> 0,
            whole |-> U32(0, 0), rows |-> rows] :
              rows \in [1..MaxRows -> RowHashes] }

HashReload ==
    \E replace \in BOOLEAN, pack \in HashPacks :
        NotifyConfigChanged(replace, FALSE, TRUE, pack, CacheStep)

HashCompute ==
    \E addr \in {0, 1}, call \in HashCalls :
        ComputeHash(addr, call.bufw, call.w, call.h, call.bpp, call.maxSeenV,
                    call.whole, call.rows)

HashFind ==
    \E cachekey \in CacheKeys : FindReplacement(cachekey, 1, 512, 512)

NextHash ==
    \/ HashReload
    \/ HashCompute
    \/ HashFind

SpecHash == Init /\ [][NextHash]_vars

\* ------------------------------------------------------------------------
\* Properties of hashing
\* ------------------------------------------------------------------------
\* The size the hash ranges give for a texture, with the rows seen taken into
\* account when seenV is not 0
RangedSize(addr, w, h, seenV) ==
    IF RangeKey(addr, w, h) \in DOMAIN hashranges_
    THEN hashranges_[RangeKey(addr, w, h)]
    ELSE [first |-> w,
          second |-> IF h = 512 /\ 0 < seenV /\ seenV < 512 THEN seenV ELSE h]

\* The bytes of a texture of this size that one call of the hash function reads
BytesOf(bufw, size, bpp, factor) ==
    IF bufw <= size.first
    THEN (((bpp * (bufw * size.second + (size.first - bufw))) \div 8) * factor) \div 4
    ELSE (((bpp * size.first) \div 8) * factor) \div 4

HashedAsRanged ==
    last.op = "ComputeHash" =>
        LET a == last.args
            size == RangedSize(a.addr, a.w, a.h, a.maxSeenV)
        IN  /\ last.hashed.w = size.first
            /\ last.hashed.h = size.second
            /\ last.hashed.bytes = BytesOf(a.bufw, size, a.bpp, last.hashed.factor)

\* C14 as stated: ComputeHash hashes the size the hash ranges give, and the
\* handle FindReplacement returns for (addr, w, h) has that size as its
\* target, the unmodified w x h when no entry matches.
C14_RangedEverywhere ==
    /\ HashedAsRanged
    /\ (last.op = "FindReplacement" /\ last.ret # NullHandle) =>
          LET a == last.args
              size == RangedSize(a.cachekey.hi, a.w, a.h, 0)
          IN  /\ handles[last.ret].desc.newW = size.first
              /\ handles[last.ret].desc.newH = size.second

\* C14, amended: ComputeHash hashes the size the hash ranges give, and a
\* handle FindReplacement constructs for (addr, w, h) gets that size as its
\* target, the unmodified w x h when no entry matches.
C14_RangedWhenResolved ==
    /\ HashedAsRanged
    /\ (last.op = "FindReplacement" /\ last.constructed) =>
          LET a == last.args
              size == RangedSize(a.cachekey.hi, a.w, a.h, 0)
          IN  /\ handles[last.ret].desc.newW = size.first
              /\ handles[last.ret].desc.newH = size.second

\* C14 happens: with the entry (1, 512, 512) -> (480, 272) loaded, a handle for
\* that address and size was constructed with the target 480 x 272, and a hash
\* of that texture with 100 rows seen read the bytes of 480 x 272
C14_Witness ==
    /\ RangeKey(1, 512, 512) \in DOMAIN hashranges_
    /\ \E id \in 1..Len(handles) :
          /\ handles[id].desc.cachekey.hi = 1
          /\ handles[id].desc.w = 512 /\ handles[id].desc.h = 512
          /\ handles[id].desc.newW = 480 /\ handles[id].desc.newH = 272
    /\ last.op = "ComputeHash"
    /\ last.args.addr = 1 /\ last.args.h = 512 /\ last.args.maxSeenV = 100
    /\ last.hashed.w = 480 /\ last.hashed.h = 272
    /\ last.hashed.bytes = BytesOf(480, [first |-> 480, second |-> 272],
                                   last.args.bpp, last.hashed.factor)

\* The rows with the content of rows i and j exchanged
Swapped(rows, i, j) == [rows EXCEPT ![i] = rows[j], ![j] = rows[i]]

\* 0x80000000
TopBit == U32(32768, 0)

\* The last call hashed row by row
Strided == last.op = "ComputeHash" /\ ~last.hashed.contiguous

C16_FullWhenNotReduced ==
    (last.op = "ComputeHash" /\ (hash_ = "quick" \/ ~reduceHash_))
        => last.hashed.factor = FullFactor

\* ------------------------------------------------------------------------
\* Properties of the fast tier across reloads
\* ------------------------------------------------------------------------
\* Replacing and saving are both off and the replacer is disabled
FullyDisabled == ~bReplaceTextures /\ ~bSaveNewTextures /\ ~enabled_

\* C17: a negative entry of cache_ does not outlive a full disable and
\* re-enable: when the replacer comes back from being fully disabled, no
\* ignored entry is left, so the next FindReplacement resolves the key anew.
C17_CycleInvalidates ==
    [][(FullyDisabled /\ enabled_')
          => \A key \in DOMAIN cache_' : cache_'[key].texture # NullHandle]_vars

\* ------------------------------------------------------------------------
\* Properties of a whole session of saving
\* ------------------------------------------------------------------------
\* The keys (cachekey under ignoreAddress_, hash) for which a call of
\* NotifyTextureDecoded got past its checks and queued: those of savedCache_
\* and, before the call returns, the one just queued
QueuedIdentities ==
    DOMAIN savedCache_ \cup (IF pc.at = "enqueued" THEN {pc.replacementKey} ELSE {})

\* C18: the tasks queued so far are no more than the keys (cachekey under
\* ignoreAddress_, hash) that got past the checks of NotifyTextureDecoded, and
\* each of these keys has one task, whatever the levels of the calls.
C18_TasksWithinIdentities ==
    /\ Len(tasks) <= Cardinality(QueuedIdentities)
    /\ \A key \in QueuedIdentities :
          Cardinality({i \in DOMAIN tasks : tasks[i].replacementKey = key}) = 1

\* C18 happens: two textures were queued, and a later call for level 1 of one
\* of them got past the checks and queued nothing
C18_Witness ==
    /\ pc.at = "idle"
    /\ Len(tasks) = 2
    /\ Cardinality(DOMAIN savedCache_) = 2
    /\ LastPassed /\ ~last.queued /\ last.level = 1
    /\ \E i \in DOMAIN tasks :
          tasks[i].replacementKey = last.replacementKey /\ tasks[i].level = 0

\* ------------------------------------------------------------------------
\* Properties of lookups while not replacing
\* ------------------------------------------------------------------------
\* C19: a FindReplacement made while the replacer is disabled or
\* bReplaceTextures is off returns nothing, whatever the key and whatever
\* cache_ holds for it, and leaves cache_, levelCache_ and the handles as
\* they were.
C19_NothingWhenOff ==
    [][(last'.op = "FindReplacement" /\ (~enabled_ \/ ~bReplaceTextures))
          => /\ last'.ret = NullHandle
             /\ cache_' = cache_
             /\ levelCache_' = levelCache_
             /\ handles' = handles]_vars

\* C19 happens: textures are being saved and not replaced, cache_ has a handle
\* for the key of the last lookup, and the lookup returned nothing
C19_Witness ==
    /\ enabled_ /\ bSaveNewTextures /\ ~bReplaceTextures
    /\ last.op = "FindReplacement"
    /\ ReplacementCacheKey(last.args.cachekey, last.args.hash) \in DOMAIN cache_
    /\ cache_[ReplacementCacheKey(last.args.cachekey, last.args.hash)].texture # NullHandle
    /\ last.ret = NullHandle
    /\ ~last.resolved

\* ------------------------------------------------------------------------
\* Properties of the age of a normal sweep
\* ------------------------------------------------------------------------
\* Four times the age in seconds that goes with a measured size in GiB:
\* 1800 up to 1 GiB, and above it 90 + (1 - min(size, 4) / 4) * 1710
AgeForSize(size) ==
    IF size <= 1 THEN 4 * 1800
    ELSE 4 * 90 + (4 - (IF size < 4 THEN size ELSE 4)) * 1710

\* C20: the age of a Decimate(NORMAL) follows from the size the sweep before
\* it measured, by AgeForSize; it lies between 90 s and 1800 s, is 90 s from
\* 4 GiB on, and no smaller size gives a smaller age. The measured size
\* changes in sweeps only (Decimate, and the one NotifyConfigChanged makes when
\* it disables), to the size of the pixel data the sweep left.
C20_AgeFromLastSize ==
    [][/\ (last'.op = "Decimate" /\ last'.mode = "NORMAL") =>
             /\ last'.ageScaled = AgeForSize(lastTextureCacheSizeGB_)
             /\ last'.ageScaled >= 4 * 90
             /\ last'.ageScaled <= 4 * 1800
             /\ lastTextureCacheSizeGB_ >= 4 => last'.ageScaled = 4 * 90
             /\ \A smaller \in 0..lastTextureCacheSizeGB_ :
                   AgeForSize(smaller) >= last'.ageScaled
       /\ lastTextureCacheSizeGB_' # lastTextureCacheSizeGB_ =>
             /\ last'.op \in {"Decimate", "NotifyConfigChanged"}
             /\ lastTextureCacheSizeGB_' = SumSizes(handles', Resident')]_vars

\* C20 happens: the sweep before measured 3 GiB, between the two ends, and the
\* normal sweep took 517.5 s as its age and measured 3 GiB again
C20_Witness ==
    /\ last.op = "Decimate" /\ last.mode = "NORMAL"
    /\ last.sizeBefore = 3
    /\ last.ageScaled = 4 * 90 + 1710
    /\ last.purged = {}
    /\ lastTextureCacheSizeGB_ = 3

\* ------------------------------------------------------------------------
\* Properties of saving the levels of a texture
\* ------------------------------------------------------------------------
\* C22: a NotifyTextureDecoded that gets past the checks queues nothing only
\* when savedCache_ has its level as saved under its key; the first call for
\* level 1 of a texture whose level 0 was saved queues a task of its own.
C22_DroppedOnlyIfLevelSaved ==
    (LastPassed /\ ~last.queued)
        => /\ last.replacementKey \in DOMAIN savedCache_
           /\ last.level \in savedCache_[last.replacementKey].levelSaved

\* ------------------------------------------------------------------------
\* ~TextureReplacer
\* ------------------------------------------------------------------------
\* A teardown that deletes the texture of every entry of cache_
Teardown_OverCache ==
    [id \in DOMAIN handles |->
        Cardinality({key \in DOMAIN cache_ : cache_[key].texture = id})]

\* for (auto iter : levelCache_) delete iter.second: how many times each
\* texture is deleted
Teardown ==
    [id \in DOMAIN handles |->
        Cardinality({hashfiles \in DOMAIN levelCache_ : levelCache_[hashfiles] = id})]

\* ------------------------------------------------------------------------
\* Properties of the two tiers together
\* ------------------------------------------------------------------------
\* C25: every entry of cache_ that has a texture has the one levelCache_ holds
\* under the entry's hashfiles; every texture constructed is in levelCache_
\* under one key and no more; the teardown deletes each of them once.
C25_TiersAgree ==
    /\ \A key \in DOMAIN cache_ :
          cache_[key].texture # NullHandle =>
              /\ cache_[key].hashfiles \in DOMAIN levelCache_
              /\ levelCache_[cache_[key].hashfiles] = cache_[key].texture
    /\ \A id \in DOMAIN handles :
          Cardinality({hashfiles \in DOMAIN levelCache_ : levelCache_[hashfiles] = id}) = 1
    /\ \A hashfiles \in DOMAIN levelCache_ : levelCache_[hashfiles] \in DOMAIN handles
    /\ \A id \in DOMAIN handles : Teardown[id] = 1

\* C25 happens: two textures were constructed and one of them is what cache_
\* has for two keys
C25_Witness ==
    /\ Len(handles) = 2
    /\ \E key, other \in DOMAIN cache_ :
          /\ key # other
          /\ cache_[key].texture # NullHandle
          /\ cache_[key].texture = cache_[other].texture
    /\ \A id \in DOMAIN handles : Teardown[id] = 1

\* ------------------------------------------------------------------------
\* Aliases: reloads with [hashes] lines for some levels of one key, and lookups
\* ------------------------------------------------------------------------
MaxLevel == 2
AliasKey == ReplacementCacheKey(CacheKey(0, 1), 1)

\* The lines of [hashes] for AliasKey: a file name, empty or not, for each
\* level of a set of levels
AliasLines ==
    UNION { [levels -> {EmptyString, <<"a.png">>}] :
               levels \in SUBSET (0..MaxLevel) \ {{}} }

AliasPacks ==
    {[iniLoaded |-> TRUE, zip |-> FALSE,
      ini |-> [hash |-> "xxh32", hashes |-> AliasKey :> filenames]] :
         filenames \in AliasLines}

AliasReload ==
    \E replace \in BOOLEAN, pack \in AliasPacks :
        NotifyConfigChanged(replace, FALSE, TRUE, pack, CacheStep)

AliasFind == FindReplacement(AliasKey.cachekey, AliasKey.hash, 512, 512)

NextAlias ==
    \/ AliasReload
    \/ AliasFind

SpecAlias == Init /\ [][NextAlias]_vars

\* ------------------------------------------------------------------------
\* Properties of the aliases
\* ------------------------------------------------------------------------
RECURSIVE Joined(_, _)
\* The file names of levels 0 to n, each followed by "|"
Joined(filenames, n) ==
    IF n < 0 THEN EmptyString
    ELSE Joined(filenames, n - 1) \o filenames[n] \o <<"|">>

\* The only line of the key is an empty file name for level 0
OnlyEmptyLevel0(filenames) == DOMAIN filenames = {0} /\ filenames[0] = EmptyString

\* C26: after a reload, a key of [hashes] has the empty alias, the marker for
\* no replacement, only if its one line is an empty file name for level 0; a
\* key that has lines for levels above 0 only does not have it; and a key with
\* lines for the levels 0 to n has these n + 1 file names in the order of the
\* levels.
C26_MarkerOnlyForEmptyLevel0 ==
    [][\A pack \in AliasPacks :
          (/\ last'.op = "NotifyConfigChanged"
           /\ NotifyConfigChanged(TRUE, FALSE, TRUE, pack, CacheStep))
              => \A key \in DOMAIN pack.ini.hashes :
                    LET filenames == pack.ini.hashes[key]
                    IN  /\ key \in DOMAIN aliases_'
                        /\ aliases_'[key] = EmptyString => OnlyEmptyLevel0(filenames)
                        /\ 0 \notin DOMAIN filenames => aliases_'[key] # EmptyString
                        /\ \A n \in 0..MaxLevel :
                              (DOMAIN filenames = 0..n /\ ~OnlyEmptyLevel0(filenames))
                                  => aliases_'[key] = Joined(filenames, n)]_vars

\* ------------------------------------------------------------------------
\* Ignored addresses: reloads of a pack that sets ignoreAddress, lookups and
\* decode notifications for keys that differ in the address only
\* ------------------------------------------------------------------------
\* One alias, under a key without address, for the textures of hash 1
HashesMask == ReplacementCacheKey(CacheKey(0, 1), 1) :> OneLevel(<<"one.png">>)

MaskInis ==
    { [hash |-> "xxh32", ignoreAddress |-> TRUE, ignoreMipmap |-> mip,
       hashes |-> HashesMask] : mip \in BOOLEAN }

\* The pack, and what is left of it when its textures.ini is gone from the zip
MaskPacks ==
    {[iniLoaded |-> TRUE, zip |-> FALSE, ini |-> ini] : ini \in MaskInis}
    \cup {[iniLoaded |-> FALSE, zip |-> TRUE]}

MaskReload ==
    \E replace, save \in BOOLEAN, pack \in MaskPacks :
        NotifyConfigChanged(replace, save, TRUE, pack, CacheStep)

MaskFind ==
    \E cachekey \in CacheKeys, hash \in Hashes : FindReplacement(cachekey, hash, 512, 512)

MaskDecoded ==
    \E cachekey \in CacheKeys, hash \in Hashes, level \in Levels :
        NotifyTextureDecoded([cachekey |-> cachekey, hash |-> hash,
                              excluded |-> FALSE], level)

NextMask ==
    \/ MaskReload
    \/ MaskFind
    \/ MaskDecoded
    \/ NotifyRemember
    \/ \E i \in 1..MaxTasks : RunTask(i, "written")

SpecMask == Init /\ [][NextMask]_vars

\* ------------------------------------------------------------------------
\* Properties of ignored addresses
\* ------------------------------------------------------------------------
\* The two keys have one hash and differ in the upper 32 bits at most
SameButAddress(key, other) ==
    key.hash = other.hash /\ key.cachekey.lo = other.cachekey.lo

\* C23: with ignoreAddress set, keys that differ in the upper 32 bits only
\* have one texture and one identity in cache_, each under its own key; a file
\* name made up for a texture has zeros for the address; and the decode
\* notifications of such keys queue one task between them, under the key
\* without address.
C23_AddressIgnored ==
    /\ enabled_ => ignoreAddress_
    /\ \A key, other \in DOMAIN cache_ :
          SameButAddress(key, other) =>
              /\ cache_[key].texture = cache_[other].texture
              /\ cache_[key].hashfiles = cache_[other].hashfiles
    /\ (last.op = "FindReplacement" /\ last.resolved) =>
          ReplacementCacheKey(last.args.cachekey, last.args.hash) \in DOMAIN cache_
    /\ \A id \in DOMAIN handles :
          handles[id].desc.hashfiles = <<handles[id].desc.filenames[1]>> =>
              handles[id].desc.filenames[1] =
                  HashName(CacheKey(0, handles[id].desc.cachekey.lo),
                           handles[id].desc.hash, 0) \o ".png"
    /\ \A i, j \in DOMAIN tasks :
          SameButAddress(tasks[i].info, tasks[j].info) => i = j
    /\ \A i \in DOMAIN tasks : tasks[i].replacementKey.cachekey.hi = 0

\* C23 happens: cache_ has the texture of one.png under both keys of hash 1,
\* and for hash 2 the decode of one key queued a task and the decode of the
\* other, which passed the checks, queued none
C23_Witness ==
    /\ ReplacementCacheKey(CacheKey(0, 1), 1) \in DOMAIN cache_
    /\ ReplacementCacheKey(CacheKey(1, 1), 1) \in DOMAIN cache_
    /\ cache_[ReplacementCacheKey(CacheKey(1, 1), 1)].texture # NullHandle
    /\ cache_[ReplacementCacheKey(CacheKey(1, 1), 1)].hashfiles = <<"one.png", "|">>
    /\ Len(tasks) = 1
    /\ LastPassed /\ ~last.queued
    /\ last.cachekey # tasks[1].info.cachekey

\* ------------------------------------------------------------------------
\* Properties of the backend the textures read from
\* ------------------------------------------------------------------------
\* C24: whatever NotifyConfigChanged calls were made, reloads that succeed or
\* fail and switches to disabled, every texture of levelCache_ refers to the
\* backend vfs_ refers to, and none to a backend that was deleted.
C24_ResidentReadCurrent ==
    \A id \in Resident :
        /\ handles[id].vfs_ = vfs_
        /\ handles[id].vfs_ # DeletedStore

\* ------------------------------------------------------------------------
\* Decimate, item by item, while other threads load the pixel data of textures
\* ------------------------------------------------------------------------
\* A mutex that anyone can take at any time
LockFree_Always(id) == TRUE

\* lock_ of the texture can be taken
LockFree(id) == ~handles[id].lock_

\* Decimate up to the loop: the age and the threshold are fixed and no item
\* has been visited
SweepBegin(mode, dt) ==
    /\ pc.at = "idle"
    /\ now + dt <= MaxTime
    /\ now' = now + dt
    /\ pc' = [at |-> "sweep", mode |-> mode,
              threshold |-> (now + dt) * MAX_CACHE_SIZE - DecimateAgeScaled(mode),
              left |-> Resident, holds |-> NullHandle, measured |-> FALSE,
              totalSize |-> 0]
    /\ UNCHANGED <<configVars, tierVars, handles, savedCache_, tasks, files,
                   lastTextureCacheSizeGB_, last, seen, reduceHashSize>>

\* std::lock_guard<std::mutex> guard(item.second->lock_) for the next item
SweepLock(id) ==
    /\ pc.at = "sweep" /\ pc.holds = NullHandle
    /\ id \in pc.left
    /\ LockFree(id)
    /\ handles' = [handles EXCEPT ![id].lock_ = TRUE]
    /\ pc' = [pc EXCEPT !.holds = id, !.measured = FALSE]
    /\ UNCHANGED <<configVars, tierVars, savedCache_, tasks, files, now,
                   lastTextureCacheSizeGB_, last, seen, reduceHashSize>>

\* PurgeIfNotUsedSinceTime(threshold) and totalSize += GetTotalDataSize()
SweepPurge ==
    /\ pc.at = "sweep" /\ pc.holds # NullHandle /\ ~pc.measured
    /\ handles' = [handles EXCEPT
                     ![pc.holds] = PurgeIfNotUsedSinceTime(@, pc.threshold)]
    /\ pc' = [pc EXCEPT !.measured = TRUE,
                        !.totalSize = @ + GetTotalDataSize(handles'[pc.holds])]
    /\ UNCHANGED <<configVars, tierVars, savedCache_, tasks, files, now,
                   lastTextureCacheSizeGB_, last, seen, reduceHashSize>>

\* The end of the loop body: the guard lets lock_ go
SweepUnlock ==
    /\ pc.at = "sweep" /\ pc.holds # NullHandle /\ pc.measured
    /\ handles' = [handles EXCEPT ![pc.holds].lock_ = FALSE]
    /\ pc' = [pc EXCEPT !.holds = NullHandle, !.left = @ \ {pc.holds}]
    /\ UNCHANGED <<configVars, tierVars, savedCache_, tasks, files, now,
                   lastTextureCacheSizeGB_, last, seen, reduceHashSize>>

\* After the loop: lastTextureCacheSizeGB_ = totalSizeGB
SweepEnd ==
    /\ pc.at = "sweep" /\ pc.holds = NullHandle /\ pc.left = {}
    /\ lastTextureCacheSizeGB_' = pc.totalSize
    /\ pc' = Idle
    /\ last' = [op |-> "Decimate", mode |-> pc.mode, stepwise |-> TRUE]
    /\ UNCHANGED <<configVars, tierVars, handles, savedCache_, tasks, files, now,
                   seen, reduceHashSize>>

\* A thread that loads the pixel data of a texture takes its lock_
LoadLock(id) ==
    /\ id \in DOMAIN handles
    /\ ~handles[id].loading
    /\ LockFree(id)
    /\ handles' = [handles EXCEPT ![id].lock_ = TRUE, ![id].loading = TRUE]
    /\ UNCHANGED <<configVars, tierVars, saveVars, now, lastTextureCacheSizeGB_,
                   last, seen, reduceHashSize>>

\* It decodes size GiB of pixel data, if there is none, and lets lock_ go
LoadUnlock(id, size) ==
    /\ id \in DOMAIN handles
    /\ handles[id].loading
    /\ handles' = [handles EXCEPT ![id].data = IF @ = 0 THEN size ELSE @,
                                  ![id].lastUsed_ = now,
                                  ![id].lock_ = FALSE, ![id].loading = FALSE]
    /\ UNCHANGED <<configVars, tierVars, saveVars, now, lastTextureCacheSizeGB_,
                   last, seen, reduceHashSize>>

LockReload == NotifyConfigChanged(TRUE, FALSE, TRUE, EvictPack, 0)

LockFind ==
    \E hash \in Hashes : FindReplacement(CacheKey(0, 1), hash, 512, 512)

SweepSteps ==
    \/ \E mode \in Modes : SweepBegin(mode, CacheStep)
    \/ \E id \in DOMAIN handles : SweepLock(id)
    \/ SweepPurge
    \/ SweepUnlock
    \/ SweepEnd

LoadSteps ==
    \/ \E id \in DOMAIN handles : LoadLock(id)
    \/ \E id \in DOMAIN handles, size \in DataSizes : LoadUnlock(id, size)

NextLock ==
    \/ LockReload
    \/ LockFind
    \/ SweepSteps
    \/ LoadSteps

SpecLock == Init /\ [][NextLock]_vars

\* ------------------------------------------------------------------------
\* Properties of the sweep among loading threads
\* ------------------------------------------------------------------------
\* The sweep is inside the guarded block of the texture
SweepHolds(id) == pc.at = "sweep" /\ pc.holds = id

\* C21: the sweep purges a texture and adds its size only inside the block
\* guarded by the lock_ of that texture; it holds one lock_ at most, and none
\* that covers the cache, so it is never inside the block of a texture that a
\* thread is loading, while another texture can be loaded; and at no point of
\* a sweep are all threads waiting: the sweep can take a step, or a loading
\* thread holds the lock_ the sweep waits for and can let it go.
C21_SweepUnderItemLock ==
    /\ [](\A id \in DOMAIN handles :
             /\ SweepHolds(id) => (handles[id].lock_ /\ ~handles[id].loading)
             /\ handles[id].loading => handles[id].lock_
             /\ (handles[id].lock_ /\ ~handles[id].loading) => SweepHolds(id))
    /\ [][/\ \A id \in DOMAIN handles :
                (pc.at = "sweep" /\ handles'[id].data < handles[id].data)
                    => (SweepHolds(id) /\ handles[id].lock_)
          /\ (pc.at = "sweep" /\ pc'.at = "sweep" /\ pc'.totalSize # pc.totalSize)
                => (pc.holds # NullHandle /\ handles[pc.holds].lock_)
          /\ \A id \in DOMAIN handles :
                (SweepHolds(id) /\ ~handles[id].loading /\ handles'[id].loading) => FALSE]_vars
    /\ [](pc.at = "sweep" =>
             \/ ENABLED SweepSteps
             \/ \E id \in pc.left : handles[id].loading /\ ENABLED LoadUnlock(id, 1))
    /\ [](\A id \in DOMAIN handles :
             (pc.at = "sweep" /\ pc.holds # id /\ ~handles[id].loading)
                 => ENABLED LoadLock(id))

\* C21 happens: the sweep is inside the guarded block of one texture, which it
\* has purged, while a thread loads the other
C21_Witness ==
    /\ pc.at = "sweep" /\ pc.holds # NullHandle /\ pc.measured
    /\ handles[pc.holds].data = 0
    /\ \E id \in DOMAIN handles :
          /\ id # pc.holds
          /\ handles[id].loading
          /\ handles[id].lock_

====
